---- MODULE Spec2Model ----
(***************************************************************************)
(* Model of the syla-api-gateway: the REST handlers (src/src/main.rs), the *)
(* gRPC handlers (src/src/grpc.rs), the authentication interceptor         *)
(* (src/src/auth.rs) and the State Coordinator with its in-memory cache    *)
(* (src/src/state.rs).  The backend execution service is the environment.  *)
(*                                                                         *)
(* Every request is a task of the tokio runtime.  A task is modelled by a  *)
(* request slot whose pc moves from one suspension point (.await) of the   *)
(* handler to the next; the code between two suspension points is one      *)
(* atomic action.                                                          *)
(***************************************************************************)
EXTENDS Integers, FiniteSets, Sequences, TLC

\* ------------------------------------------------------------------ bounds
NumReqs == 2      \* request slots (concurrent or successive requests)
NumIds == 2       \* execution identifiers the backend can assign
CallCap == 2      \* the per-request backend-call counter saturates here
TimeoutBits == 4  \* width at which the casts of the timeout are computed
                  \* (i64 and u64 in the program)

Reqs == 1..NumReqs
\* The slots of the state: those of Reqs and one more, for the case of two
\* successive gets beside a concurrent one.
Slots == 1..(NumReqs + 1)
Ids == 1..NumIds

\* ----------------------------------------------------------- Option<T>
None == <<>>
Some(x) == <<x>>
IsSome(o) == o # <<>>
Unwrap(o) == o[1]

\* ------------------------------------------------- domain model
\* src/src/execution.rs: enum ExecutionStatus
ExecutionStatus == {"Pending", "Running", "Completed", "Failed", "Timeout"}

\* src/src/state.rs: enum JobStatus (the backend's wire statuses), plus
\* "absent" for an id the backend does not know.
JobStatus == {"queued", "running", "completed", "failed", "timeout"}

\* state.rs:33-39: struct JobResult
JobResult(exit_code, stdout, stderr, duration_ms) ==
    [exit_code |-> exit_code, stdout |-> stdout, stderr |-> stderr, duration_ms |-> duration_ms]

\* chrono::DateTime<Utc>: whole seconds since the epoch and the nanoseconds
\* of the second.
DateTime(secs, nanos) == [secs |-> secs, nanos |-> nanos]

\* The result the backend attaches to a job: present once the job is over.
JobResultOf(status) ==
    CASE status = "completed" -> Some(JobResult(0, "1", "", 1500))
      [] status = "failed"    -> Some(JobResult(1, "", "boom", 20))
      [] status = "timeout"   -> Some(JobResult(2, "", "", 30001))
      [] OTHER                -> None

\* The timestamps the backend keeps for a job.
JobCreatedAt == DateTime(100, 7)
JobStartedAt(status) == IF status = "queued" THEN None ELSE Some(DateTime(101, 0))
JobCompletedAt(status) ==
    IF status \in {"queued", "running"} THEN None ELSE Some(DateTime(102, 500000000))

\* The ExecutionJob the backend serialises for a job id with a status.
JobOf(id, status) ==
    [id |-> id, status |-> status, result |-> JobResultOf(status),
     created_at |-> JobCreatedAt, started_at |-> JobStartedAt(status),
     completed_at |-> JobCompletedAt(status)]

\* The ExecutionJob the backend serialises for id in backend state b.
ExecutionJob(b, id) == JobOf(id, b[id])

\* Variant of the match: a job that timed out is taken as still running.
JobToStatus_TimeoutRunning(status) ==
    CASE status = "queued"    -> "Pending"
      [] status = "running"   -> "Running"
      [] status = "completed" -> "Completed"
      [] status = "failed"    -> "Failed"
      [] status = "timeout"   -> "Running"

\* state.rs:84-90 and 148-154: match job.status { ... }
JobToStatus(status) ==
    CASE status = "queued"    -> "Pending"
      [] status = "running"   -> "Running"
      [] status = "completed" -> "Completed"
      [] status = "failed"    -> "Failed"
      [] status = "timeout"   -> "Failed"

\* state.rs:82-100 and 146-164: ExecutionResponse { id, status, result, .. }
JobToExecution(job) ==
    [id |-> job.id, status |-> JobToStatus(job.status), result |-> job.result,
     created_at |-> job.created_at, started_at |-> job.started_at,
     completed_at |-> job.completed_at]


\* ------------------------------------------------- results and errors
\* Result<ExecutionResponse, ApiError> / Result<ExecutionStatus, ApiError> /
\* tonic::Status as the handler's outcome.  cause is the anyhow error that
\* ApiError::Internal carries (error.rs:17-18).
NoRet == [kind |-> "None", exec |-> None, status |-> "", cause |-> ""]
Ok(e) == [kind |-> "Ok", exec |-> Some(e), status |-> "", cause |-> ""]
OkStatus(s) == [kind |-> "Ok", exec |-> None, status |-> s, cause |-> ""]
Err(kind, cause) == [kind |-> kind, exec |-> None, status |-> "", cause |-> cause]

\* What the backend can answer to one HTTP call (state.rs:65-79, 126-143):
\* a decodable job, 404, another non-success status, a transport error
\* (send() fails, includes timeouts) or an undecodable body.
BackendFailures == {"transport", "status", "decode"}

\* Variants of the test at state.rs:117, each a slip the test could contain.
NeedsRefresh_OnlyCompletedTrusted(status) == status # "Completed"
NeedsRefresh_RunningTrusted(status) == status = "Pending"
NeedsRefresh_Always(status) == TRUE
NeedsRefresh_Never(status) == FALSE

\* state.rs:117: execution.status == Pending || execution.status == Running
NeedsRefresh(status) == status = "Pending" \/ status = "Running"

\* What the lookup at state.rs:115-121 found: no entry ("miss"), an entry that
\* is returned ("hit") or an entry that is not trusted ("stale").
Lookup(entry) ==
    IF ~IsSome(entry) THEN "miss"
    ELSE IF NeedsRefresh(Unwrap(entry).status) THEN "stale" ELSE "hit"

\* Variants of the insert at state.rs:105 and 169: an insert that keeps an
\* entry already present (entry().or_insert), and one that is lost.
CacheInsert_IfAbsent(cache, execution) ==
    IF IsSome(cache[execution.id]) THEN cache
    ELSE [cache EXCEPT ![execution.id] = Some(execution)]
CacheInsert_Lost(cache, execution) == cache

\* Variant: the insert replaces the map, so the other entries are gone.
CacheInsert_Reset(cache, execution) ==
    [id \in DOMAIN cache |-> IF id = execution.id THEN Some(execution) ELSE None]

\* Variant: the entry is filed under another key than its identifier.
CacheInsert_Misfiled(cache, execution) ==
    LET key == IF execution.id = 1 THEN NumIds ELSE execution.id - 1
    IN  [cache EXCEPT ![key] = Some(execution)]

\* state.rs:105 and 169: executions.insert(execution.id, execution.clone())
CacheInsert(cache, execution) == [cache EXCEPT ![execution.id] = Some(execution)]

\* Variant: the read guard lives to the end of the function, so it is held
\* across the fetch.
ReadGuardDropped_AtReturn(holders, r) == holders

\* state.rs:113-123: the guard `executions` is a local of the block, dropped
\* where the block ends or returns
ReadGuardDropped(holders, r) == holders \ {r}

\* Variant: the write guard is leaked (mem::forget), the lock stays taken.
WriteGuardDropped_Leaked(holder, r) == holder

\* state.rs:103-106 and 167-170: the write guard is a local of the block
WriteGuardDropped(holder, r) == holder \ {r}

\* Variant of the error paths: the call is issued again.
PcAfterError_Retry(pcNow) == pcNow

\* state.rs:70,73-79 / 130,133,137-143: `return Err(..)` and `?` end the call.
PcAfterError(pcNow) == "done"

\* Variant of the error paths of the fetch: fall back to the cached entry.
FetchError_ServeCached(cached, err) == IF IsSome(cached) THEN Ok(Unwrap(cached)) ELSE err

\* state.rs:130-143: the error get_execution returns when the fetch failed;
\* the entry the cache holds for the id plays no part.
FetchError(cached, err) == err

\* Variant of get_execution_status: an error of get_execution is reported as
\* the status Pending.
GetStatusResult_ErrorAsPending(r) ==
    IF r.kind = "Ok" THEN OkStatus(Unwrap(r.exec).status) ELSE OkStatus("Pending")

\* state.rs:175-178: get_execution_status = get_execution(id).await?.status
GetStatusResult(r) == IF r.kind = "Ok" THEN OkStatus(Unwrap(r.exec).status) ELSE r

\* What the coordinator method called by the handler returns, given the
\* result of get_execution.
Finish(op, r) == IF op = "get_status" THEN GetStatusResult(r) ELSE r

\* ------------------------------------------------- authentication
\* An authorization header: None, or Some(<<scheme, token>>) for the text
\* "<scheme> <token>"; the scheme "opaque" stands for a header value that is
\* not visible ASCII (to_str fails).
BearerOk == Some(<<"Bearer", "tok">>)
BearerInvalid == Some(<<"Bearer", "invalid">>)
Headers == {BearerOk, BearerInvalid}

\* auth.rs:13-17: struct AuthContext
AuthContext(user_id, tenant_id, token) ==
    [user_id |-> user_id, tenant_id |-> tenant_id, token |-> token]

\* Ok(AuthContext)
AuthOk(ctx) == [kind |-> "Ok", exec |-> Some(ctx), status |-> "", cause |-> ""]

\* Variant of the placeholder: the sentinel is accepted like any token.
validate_token_AcceptAll(token) ==
    AuthOk(AuthContext("placeholder-user", Some("placeholder-tenant"), token))

\* auth.rs:72-93
validate_token(token) ==
    IF token = "invalid" THEN Err("Unauthenticated", "Invalid token")
    ELSE AuthOk(AuthContext("placeholder-user", Some("placeholder-tenant"), token))

\* auth.rs:37-69
authenticate(skip, header) ==
    IF skip THEN AuthOk(AuthContext("dev-user", Some("dev-tenant"), "dev-token"))
    ELSE IF header = None THEN Err("Unauthenticated", "Missing authorization header")
    ELSE IF Unwrap(header)[1] = "opaque"
         THEN Err("Unauthenticated", "Invalid authorization header")
    ELSE IF Unwrap(header)[1] # "Bearer"
         THEN Err("Unauthenticated", "Invalid authorization format")
    ELSE validate_token(Unwrap(header)[2])

\* std::env::var("SKIP_AUTH"): unset (None) or the text it holds.
SkipAuthEnvs == {None, Some("true"), Some("false"), Some("TRUE"), Some("1"), Some("yes"), Some("")}

\* str::parse::<bool>: exactly "true" and "false" are booleans.
ParseBool(text) ==
    CASE text = "true"  -> Some(TRUE)
      [] text = "false" -> Some(FALSE)
      [] OTHER          -> None

\* Option::unwrap_or / Result::unwrap_or
UnwrapOr(o, default) == IF IsSome(o) THEN Unwrap(o) ELSE default

\* Variant: a value that is not a boolean switches the bypass on.
SkipAuthFlag_DefaultOn(env) == UnwrapOr(ParseBool(UnwrapOr(env, "false")), TRUE)

\* main.rs:65-68: var("SKIP_AUTH").unwrap_or("false").parse::<bool>().unwrap_or(false)
SkipAuthFlag(env) == UnwrapOr(ParseBool(UnwrapOr(env, "false")), FALSE)

\* ------------------------------------------------- languages
\* The language of a create request: a string on the REST surface
\* (execution.rs:8), a value of the Language enum on the gRPC surface.
RestLanguages == {"python", "klingon"}
GrpcLanguages == {"Python", "Unspecified"}

\* grpc.rs:39-51: match Language::try_from(req.language); None stands for the
\* arm that returns Status::invalid_argument.
GrpcLanguageName(lang) ==
    CASE lang = "Python"     -> Some("python")
      [] lang = "Javascript" -> Some("javascript")
      [] lang = "Typescript" -> Some("typescript")
      [] lang = "Rust"       -> Some("rust")
      [] lang = "Go"         -> Some("go")
      [] lang = "Java"       -> Some("java")
      [] lang = "Cpp"        -> Some("cpp")
      [] lang = "Csharp"     -> Some("csharp")
      [] lang = "Ruby"       -> Some("ruby")
      [] lang = "Php"        -> Some("php")
      [] OTHER               -> None

\* The names of the Language enum the adapters and the client match on.
LanguageEnum == {"Unspecified", "Python", "Javascript", "Typescript", "Rust", "Go", "Java",
                 "Cpp", "Csharp", "Ruby", "Php", "Shell"}

\* The canonical strings of the eleven supported languages.
CanonicalLanguages == {"python", "javascript", "typescript", "rust", "go", "java", "cpp",
                       "csharp", "ruby", "php", "shell"}

\* Language strings a request can carry: the canonical ones, the aliases
\* the client knows, spellings with capitals and strings that are no language.
LanguageStrings ==
    CanonicalLanguages \cup {"c++", "c#", "bash", "sh", "Python", "RUST", "klingon", ""}

\* str::to_lowercase on the strings above.
ToLowercase(text) ==
    CASE text = "Python" -> "python"
      [] text = "RUST"   -> "rust"
      [] OTHER           -> text

\* clients/execution.rs:123-138
language_to_proto(lang) ==
    LET l == ToLowercase(lang) IN
    CASE l = "python"     -> "Python"
      [] l = "javascript" -> "Javascript"
      [] l = "typescript" -> "Typescript"
      [] l = "rust"       -> "Rust"
      [] l = "go"         -> "Go"
      [] l = "java"       -> "Java"
      [] l \in {"cpp", "c++"}         -> "Cpp"
      [] l \in {"csharp", "c#"}       -> "Csharp"
      [] l = "ruby"       -> "Ruby"
      [] l = "php"        -> "Php"
      [] l \in {"shell", "bash", "sh"} -> "Shell"
      [] OTHER            -> "Unspecified"

\* ------------------------------------------------- status translation
\* The backend's status on the binary RPC transport: the names of the
\* ProtoExecutionStatus enum, and "Unknown" for an i32 that is no value of it.
ProtoStatusEnum == {"Unspecified", "Pending", "Queued", "Preparing", "Running", "Completed",
                    "Failed", "Cancelled", "Timeout"}
ProtoStatuses == ProtoStatusEnum \cup {"Unknown"}

\* Variant: a value outside the enum falls back to Timeout.
ProtoStatusTryFrom_DefaultTimeout(status) ==
    IF status \in ProtoStatusEnum THEN status ELSE "Timeout"

\* clients/execution.rs:141: try_from(status).unwrap_or(Unspecified)
ProtoStatusTryFrom(status) == IF status \in ProtoStatusEnum THEN status ELSE "Unspecified"

\* clients/execution.rs:140-149
proto_to_status(status) ==
    LET st == ProtoStatusTryFrom(status) IN
    CASE st \in {"Pending", "Queued", "Preparing"} -> "Pending"
      [] st = "Running"                  -> "Running"
      [] st = "Completed"                -> "Completed"
      [] st \in {"Failed", "Cancelled"}  -> "Failed"
      [] st = "Timeout"                  -> "Timeout"
      [] OTHER                           -> "Pending"

\* ------------------------------------------------- identifiers
\* The text of an identifier on the wire: Uuid::to_string of an id, or a
\* text that is no UUID.
IdText(id) == <<"uuid", id>>
BadIdText == <<"text", 0>>

\* Uuid::parse_str
ParseUuid(text) == IF text[1] = "uuid" THEN Some(text[2]) ELSE None

\* ------------------------------------------------- backend client, HTTP+JSON
\* A response of the backend to GET /executions/{id}: the request could not
\* be sent (sent = FALSE), or a status code and a body that is the job
\* ("job") or does not decode as one ("malformed").
HttpStatuses == {200, 204, 301, 400, 404, 500}
HttpResponses ==
    {[sent |-> FALSE, code |-> 0, body |-> "none"]}
    \cup [sent : {TRUE}, code : HttpStatuses, body : {"job", "malformed"}]

\* reqwest StatusCode::is_success
IsSuccess(code) == code >= 200 /\ code <= 299

\* state.rs:126-143: what get_execution makes of the response, in the order
\* of its checks.
HttpAnswer(resp, status) ==
    IF ~resp.sent THEN "transport"
    ELSE IF resp.code = 404 THEN "404"
    ELSE IF ~IsSuccess(resp.code) THEN "status"
    ELSE IF resp.body # "job" THEN "decode"
    ELSE status

\* Variant: a 404 of the backend is reported as any other failure.
HttpGetError_NotFoundAsInternal(ans) == Err("Internal", ans)

\* state.rs:130-143: the error get_execution returns for an answer that is
\* no job: 404 is NotFound, every other failure is Internal with its cause.
HttpGetError(ans) == IF ans = "404" THEN Err("NotFound", "") ELSE Err("Internal", ans)

\* state.rs:126-164, without the cache: the outcome of the fetch of id when
\* the backend's job has the given status.
HttpGetExecution(resp, id, status) ==
    LET ans == HttpAnswer(resp, status) IN
    IF ans \in JobStatus THEN Ok(JobToExecution(JobOf(id, ans))) ELSE HttpGetError(ans)

\* ------------------------------------------------- backend client, binary RPC
\* A response of the backend to the GetExecution RPC: an error status, or Ok
\* with an optional execution that carries an identifier text and a status.
TonicErrorCodes == {"NotFound", "Unavailable", "DeadlineExceeded", "Internal", "Unknown"}
RpcExecutions ==
    [id : {IdText(i) : i \in Ids} \cup {BadIdText}, status : ProtoStatuses]
RpcResponses ==
    [code : TonicErrorCodes, execution : {None}]
    \cup [code : {"Ok"}, execution : {None} \cup {Some(e) : e \in RpcExecutions}]

\* Variant: a response without an execution is reported as not found.
RpcMissingExecution_NotFound == Err("NotFound", "")

\* clients/execution.rs:96-97: ok_or_else(|| Internal("Missing execution data"))
RpcMissingExecution == Err("Internal", "Missing execution data")

\* clients/execution.rs:80-121.  The timestamps and the result are copied
\* from the message; the model keeps the identifier and the status.
RpcGetExecution(resp) ==
    IF resp.code = "NotFound" THEN Err("NotFound", "")
    ELSE IF resp.code # "Ok" THEN Err("Internal", resp.code)
    ELSE IF resp.execution = None THEN RpcMissingExecution
    ELSE LET e == Unwrap(resp.execution) IN
         IF ParseUuid(e.id) = None THEN Err("Internal", "uuid")
         ELSE Ok([id |-> Unwrap(ParseUuid(e.id)), status |-> proto_to_status(e.status)])

\* ------------------------------------------------- REST encoding
\* Variant: every error is reported as an internal error.
RestErrorStatus_AllInternal(kind) == <<500, "internal_error">>

\* error.rs:35-41: the status code and the error kind of an ApiError
RestErrorStatus(kind) ==
    CASE kind = "NotFound"           -> <<404, "not_found">>
      [] kind = "BadRequest"         -> <<400, "bad_request">>
      [] kind = "Internal"           -> <<500, "internal_error">>
      [] kind = "ServiceUnavailable" -> <<503, "service_unavailable">>
      [] kind = "RateLimited"        -> <<429, "rate_limited">>

\* Variant: the text of an internal error includes the error it wraps.
ApiErrorMessage_WithCause(r) ==
    CASE r.kind = "NotFound"           -> "Not found"
      [] r.kind = "BadRequest"         -> <<"Bad request: ", r.cause>>
      [] r.kind = "Internal"           -> <<"Internal server error: ", r.cause>>
      [] r.kind = "ServiceUnavailable" -> "Service unavailable"
      [] r.kind = "RateLimited"        -> "Too many requests"

\* error.rs:11-24: #[error("..")], the text of self.to_string()
ApiErrorMessage(r) ==
    CASE r.kind = "NotFound"           -> "Not found"
      [] r.kind = "BadRequest"         -> <<"Bad request: ", r.cause>>
      [] r.kind = "Internal"           -> "Internal server error"
      [] r.kind = "ServiceUnavailable" -> "Service unavailable"
      [] r.kind = "RateLimited"        -> "Too many requests"

\* execution.rs:24-32: #[serde(rename_all = "lowercase")]
StatusJson(status) ==
    CASE status = "Pending"   -> "pending"
      [] status = "Running"   -> "running"
      [] status = "Completed" -> "completed"
      [] status = "Failed"    -> "failed"
      [] status = "Timeout"   -> "timeout"

\* execution.rs:14-22: the JSON of an ExecutionResponse
ExecutionJson(e) ==
    [id |-> IdText(e.id), status |-> StatusJson(e.status), result |-> e.result,
     created_at |-> e.created_at, started_at |-> e.started_at,
     completed_at |-> e.completed_at]

\* main.rs:128-150 with error.rs:33-50: the HTTP response of a handler whose
\* coordinator call returned r.
RestResponse(r) ==
    IF r.kind = "Ok"
    THEN [http |-> 200, error |-> "", message |-> "",
          body |-> IF IsSome(r.exec) THEN Some(ExecutionJson(Unwrap(r.exec)))
                   ELSE Some(StatusJson(r.status))]
    ELSE [http |-> RestErrorStatus(r.kind)[1], error |-> RestErrorStatus(r.kind)[2],
          message |-> ApiErrorMessage(r), body |-> None]

\* ------------------------------------------------- gRPC encoding
\* grpc.rs:74-80 and 141-147: `ExecutionStatus::X as i32`, the value of the
\* wire enum, written as its name in capitals.
StatusProto(status) ==
    CASE status = "Pending"   -> "PENDING"
      [] status = "Running"   -> "RUNNING"
      [] status = "Completed" -> "COMPLETED"
      [] status = "Failed"    -> "FAILED"
      [] status = "Timeout"   -> "TIMEOUT"

\* Variant: the nanoseconds are left in milliseconds.
DurationProto_MillisAsNanos(duration_ms) ==
    [seconds |-> duration_ms \div 1000, nanos |-> duration_ms % 1000]

\* grpc.rs:88-91 and 155-158: prost_types::Duration of duration_ms
DurationProto(duration_ms) ==
    [seconds |-> duration_ms \div 1000, nanos |-> (duration_ms % 1000) * 1000000]

\* grpc.rs:84-95 and 151-162
ResultProto(result) ==
    [exit_code |-> result.exit_code, stdout |-> result.stdout, stderr |-> result.stderr,
     execution_time |-> Some(DurationProto(result.duration_ms))]

\* grpc.rs:97-100 and 164-167: prost_types::Timestamp of a DateTime
TimestampProto(t) == [seconds |-> t.secs, nanos |-> t.nanos]

\* grpc.rs:151, 168, 172: Option::map of the two conversions
MapResultProto(o) == IF IsSome(o) THEN Some(ResultProto(Unwrap(o))) ELSE None
MapTimestampProto(o) == IF IsSome(o) THEN Some(TimestampProto(Unwrap(o))) ELSE None

\* grpc.rs:137-177: the Execution message of GetExecution
ExecutionProto(e, user_id) ==
    [id |-> IdText(e.id), user_id |-> user_id, status |-> StatusProto(e.status),
     result |-> MapResultProto(e.result),
     created_at |-> Some(TimestampProto(e.created_at)),
     started_at |-> MapTimestampProto(e.started_at),
     completed_at |-> MapTimestampProto(e.completed_at)]

\* Variant: every error of the coordinator is reported as internal.
GrpcGetError_AllInternal(r) == <<"Internal", "Failed to get execution">>

\* grpc.rs:183-190: the status of GetExecution for an error of the coordinator
GrpcGetError(r) ==
    IF r.kind = "NotFound" THEN <<"NotFound", "Execution not found">>
    ELSE <<"Internal", "Failed to get execution">>

\* grpc.rs:123-192: the response of GetExecution.  r is the handler's own
\* status (authentication) or what the coordinator returned.
GrpcGetResponse(r, user_id) ==
    IF r.kind = "Ok"
    THEN [code |-> "Ok", message |-> "", execution |-> Some(ExecutionProto(Unwrap(r.exec), user_id))]
    ELSE IF r.kind \in {"Unauthenticated", "InvalidArgument"}
    THEN [code |-> r.kind, message |-> r.cause, execution |-> None]
    ELSE [code |-> GrpcGetError(r)[1], message |-> GrpcGetError(r)[2], execution |-> None]

\* grpc.rs:116-119: the status of CreateExecution for an error of the
\* coordinator; the error itself goes to the log only
GrpcCreateError(r) == <<"Internal", "Failed to create execution">>

\* grpc.rs:27-121: the response of CreateExecution
GrpcCreateResponse(r, user_id) ==
    IF r.kind = "Ok"
    THEN [code |-> "Ok", message |-> "", execution |-> Some(ExecutionProto(Unwrap(r.exec), user_id))]
    ELSE IF r.kind \in {"Unauthenticated", "InvalidArgument"}
    THEN [code |-> r.kind, message |-> r.cause, execution |-> None]
    ELSE [code |-> GrpcCreateError(r)[1], message |-> GrpcCreateError(r)[2], execution |-> None]

\* ------------------------------------------------- timeout
\* The values of the signed and of the unsigned integer type.
SignedSeconds == -(2^(TimeoutBits - 1)) .. (2^(TimeoutBits - 1) - 1)
UnsignedSeconds == 0 .. (2^TimeoutBits - 1)

\* Rust's `as` between integer types of one width keeps the bits.
AsUnsigned(s) == s % (2^TimeoutBits)
AsSigned(u) == IF u >= 2^(TimeoutBits - 1) THEN u - 2^TimeoutBits ELSE u

\* prost_types::Duration { seconds: i64, nanos: i32 } a caller can send
ProtoDurations == [seconds : SignedSeconds, nanos : {0, 500000000}]

\* grpc.rs:57: req.timeout.map(|t| t.seconds as u64)
GrpcTimeoutSeconds(timeout) ==
    IF IsSome(timeout) THEN Some(AsUnsigned(Unwrap(timeout).seconds)) ELSE None

\* clients/execution.rs:46-49: timeout_seconds.map(|s| Duration { seconds: s as i64, nanos: 0 })
ClientTimeout(timeout_seconds) ==
    IF IsSome(timeout_seconds)
    THEN Some([seconds |-> AsSigned(Unwrap(timeout_seconds)), nanos |-> 0])
    ELSE None

\* ------------------------------------------------- unimplemented RPCs
\* grpc.rs:194-258 and 288-294
UnimplementedOps ==
    {"ListExecutions", "CancelExecution", "StreamExecution", "CreateWorkspace",
     "GetWorkspace", "ListWorkspaces", "UpdateWorkspace", "DeleteWorkspace", "GetMetrics"}

\* Variant: an operation without implementation answers with an empty success.
UnimplementedStatus_EmptySuccess(op) == OkStatus("")

\* grpc.rs:199, 207, 217, 225, 233, 241, 249, 257, 293: Err(Status::unimplemented(..))
UnimplementedStatus(op) == Err("Unimplemented", <<op, " not yet implemented">>)

\* ------------------------------------------------- state
VARIABLES
    skip_auth,    \* AuthInterceptor.skip_auth (auth.rs:25)
    executions,   \* AppState.executions: HashMap<Uuid, ExecutionResponse>
    readers,      \* request slots holding executions' read lock
    writer,       \* request slots holding executions' write lock (at most one)
    backend,      \* the backend execution service: id -> the job status it last
                  \* answered with, "absent" for an id it has not known so far
    pc,           \* position of each request's handler
    req,          \* the inbound request of each slot
    seen,         \* get_execution: the entry found by the lookup at state.rs:115
    fetched,      \* the local `execution` built from the backend's job
    ret,          \* the handler's outcome
    answer,       \* what the backend answered to the request's latest call: the
                  \* status of the job it sent, "404" or the way the call failed
    calls,        \* number of backend calls the request has issued
    after,        \* the requests that had completed when this one arrived
    probe         \* a translation function applied to one input: which
                  \* function, the input and the output

vars == <<skip_auth, executions, readers, writer, backend, pc, req, seen, fetched, ret,
          answer, calls, after, probe>>

NoProbe == [fn |-> "none", in |-> None, out |-> None]

NoReq == [op |-> "none", surface |-> "none", id |-> 0, header |-> None, lang |-> ""]

\* State after construction; SKIP_AUTH is read from the environment once.
Started(skips) ==
    /\ skip_auth \in skips
    /\ executions = [i \in Ids |-> None]
    /\ readers = {}
    /\ writer = {}
    /\ backend = [i \in Ids |-> "absent"]
    /\ pc = [r \in Slots |-> "idle"]
    /\ req = [r \in Slots |-> NoReq]
    /\ seen = [r \in Slots |-> None]
    /\ fetched = [r \in Slots |-> None]
    /\ ret = [r \in Slots |-> NoRet]
    /\ answer = [r \in Slots |-> "none"]
    /\ calls = [r \in Slots |-> 0]
    /\ after = [r \in Slots |-> {}]
    /\ probe = NoProbe

\* The REST handlers never read skip_auth: SKIP_AUTH is left unset.
Init == Started({FALSE})

\* main.rs:65-71: the interceptor gets the flag read from SKIP_AUTH.
GatewayInit == Started({SkipAuthFlag(env) : env \in SkipAuthEnvs})

Bump(n) == IF n < CallCap THEN n + 1 ELSE n

\* Slots are interchangeable: they are taken in order.
CanArrive(r) == pc[r] = "idle" /\ \A q \in Slots : q < r => pc[q] # "idle"

\* The request as the handler receives it.
Request(op, surface, id, header, lang) ==
    [op |-> op, surface |-> surface, id |-> id, header |-> header, lang |-> lang]

\* The requests that have been answered.
Answered == {q \in Slots : pc[q] = "done"}

\* ------------------------------------------------- REST handlers (main.rs)
\* main.rs:128-134: the handler calls state.create_execution at once.
RestCreateExecution(r, header, lang) ==
    /\ CanArrive(r)
    /\ req' = [req EXCEPT ![r] = Request("create", "rest", 0, header, lang)]
    /\ after' = [after EXCEPT ![r] = Answered]
    /\ pc' = [pc EXCEPT ![r] = "c_submit"]
    /\ UNCHANGED <<probe, skip_auth, executions, readers, writer, backend, seen, fetched, ret, answer, calls>>

\* main.rs:136-142: the handler calls state.get_execution at once.
RestGetExecution(r, id, header) ==
    /\ CanArrive(r)
    /\ req' = [req EXCEPT ![r] = Request("get", "rest", id, header, "")]
    /\ after' = [after EXCEPT ![r] = Answered]
    /\ pc' = [pc EXCEPT ![r] = "g_rlock"]
    /\ UNCHANGED <<probe, skip_auth, executions, readers, writer, backend, seen, fetched, ret, answer, calls>>

\* main.rs:144-150: the handler calls state.get_execution_status at once.
RestGetExecutionStatus(r, id, header) ==
    /\ CanArrive(r)
    /\ req' = [req EXCEPT ![r] = Request("get_status", "rest", id, header, "")]
    /\ after' = [after EXCEPT ![r] = Answered]
    /\ pc' = [pc EXCEPT ![r] = "g_rlock"]
    /\ UNCHANGED <<probe, skip_auth, executions, readers, writer, backend, seen, fetched, ret, answer, calls>>

\* ------------------------------------------------- gRPC handlers (grpc.rs)
\* grpc.rs:28-33: the handler first awaits authenticate
GrpcCreateExecution(r, header, lang) ==
    /\ CanArrive(r)
    /\ req' = [req EXCEPT ![r] = Request("create", "grpc", 0, header, lang)]
    /\ after' = [after EXCEPT ![r] = Answered]
    /\ pc' = [pc EXCEPT ![r] = "auth"]
    /\ UNCHANGED <<probe, skip_auth, executions, readers, writer, backend, seen, fetched, ret, answer, calls>>

\* grpc.rs:123-128: the handler first awaits authenticate
GrpcGetExecution(r, id, header) ==
    /\ CanArrive(r)
    /\ req' = [req EXCEPT ![r] = Request("get", "grpc", id, header, "")]
    /\ after' = [after EXCEPT ![r] = Answered]
    /\ pc' = [pc EXCEPT ![r] = "auth"]
    /\ UNCHANGED <<probe, skip_auth, executions, readers, writer, backend, seen, fetched, ret, answer, calls>>

\* grpc.rs:33-67 / 128-134 with auth.rs:37-69: `authenticate(&request).await?`,
\* then the request is decoded and the coordinator is called.
GrpcAuthenticate(r) ==
    /\ pc[r] = "auth"
    /\ LET a == authenticate(skip_auth, req[r].header) IN
         IF a.kind # "Ok"
         THEN /\ pc' = [pc EXCEPT ![r] = "done"]
              /\ ret' = [ret EXCEPT ![r] = a]
         ELSE IF req[r].op = "create" /\ GrpcLanguageName(req[r].lang) = None
         THEN /\ pc' = [pc EXCEPT ![r] = "done"]
              /\ ret' = [ret EXCEPT ![r] = Err("InvalidArgument", "Invalid language")]
         ELSE /\ pc' = [pc EXCEPT ![r] = IF req[r].op = "create" THEN "c_submit" ELSE "g_rlock"]
              /\ ret' = ret
    /\ UNCHANGED <<probe, skip_auth, executions, readers, writer, backend, req, seen, fetched, answer, calls, after>>

\* grpc.rs:194-258, 288-294: the handlers of the operations that are not
\* implemented return at once; they read nothing of the request.
GrpcUnimplemented(r, op, header) ==
    /\ CanArrive(r)
    /\ req' = [req EXCEPT ![r] = Request(op, "grpc", 0, header, "")]
    /\ after' = [after EXCEPT ![r] = Answered]
    /\ ret' = [ret EXCEPT ![r] = UnimplementedStatus(op)]
    /\ pc' = [pc EXCEPT ![r] = "done"]
    /\ UNCHANGED <<probe, skip_auth, executions, readers, writer, backend, seen, fetched, answer, calls>>

\* ------------------------------------------------- backend (environment)
\* A job only moves forward: queued -> running -> completed | failed | timeout.
\* The gateway sees the backend only through its answers, so the progress a
\* job makes between two answers is taken when the later answer is given:
\* backend[id] is the status the backend last answered with, and the next
\* answer is any status the job can have reached since.
Rank(status) ==
    CASE status = "absent"  -> 0
      [] status = "queued"  -> 1
      [] status = "running" -> 2
      [] OTHER              -> 3

Forward(status) == {t \in JobStatus \cup {"absent"} : t = status \/ Rank(t) > Rank(status)}

\* The identifiers the backend can give to the job of a POST /executions:
\* those it has not used; the new job is queued.
FreshIds(b) == {id \in Ids : b[id] = "absent"}

\* ------------------------------------------------- AppState::create_execution
\* state.rs:64-100: POST to the execution service, check the response,
\* decode the job and convert it.
CreateSubmit(r) ==
    /\ pc[r] = "c_submit"
    /\ calls' = [calls EXCEPT ![r] = Bump(calls[r])]
    /\ \/ \E f \in BackendFailures :
            /\ answer' = [answer EXCEPT ![r] = f]
            /\ ret' = [ret EXCEPT ![r] = Err("Internal", f)]
            /\ pc' = [pc EXCEPT ![r] = PcAfterError(pc[r])]
            /\ UNCHANGED <<backend, fetched>>
       \/ \E id \in FreshIds(backend) :
            /\ answer' = [answer EXCEPT ![r] = "queued"]
            /\ backend' = [backend EXCEPT ![id] = "queued"]
            /\ fetched' = [fetched EXCEPT ![r] = Some(JobToExecution(ExecutionJob(backend', id)))]
            /\ pc' = [pc EXCEPT ![r] = "c_wlock"]
            /\ ret' = ret
    /\ UNCHANGED <<probe, skip_auth, executions, readers, writer, req, seen, after>>

\* state.rs:104: self.executions.write().await
CreateLockWrite(r) ==
    /\ pc[r] = "c_wlock"
    /\ readers = {} /\ writer = {}
    /\ writer' = {r}
    /\ pc' = [pc EXCEPT ![r] = "c_insert"]
    /\ UNCHANGED <<probe, skip_auth, executions, readers, backend, req, seen, fetched, ret, answer, calls, after>>

\* state.rs:105-108: insert, drop the guard, Ok(execution)
CreateInsert(r) ==
    /\ pc[r] = "c_insert"
    /\ executions' = CacheInsert(executions, Unwrap(fetched[r]))
    /\ writer' = WriteGuardDropped(writer, r)
    /\ ret' = [ret EXCEPT ![r] = Ok(Unwrap(fetched[r]))]
    /\ pc' = [pc EXCEPT ![r] = "done"]
    /\ UNCHANGED <<probe, skip_auth, readers, backend, req, seen, fetched, answer, calls, after>>

\* ------------------------------------------------- AppState::get_execution
\* state.rs:114: self.executions.read().await
GetLockRead(r) ==
    /\ pc[r] = "g_rlock"
    /\ writer = {}
    /\ readers' = readers \cup {r}
    /\ pc' = [pc EXCEPT ![r] = "g_check"]
    /\ UNCHANGED <<probe, skip_auth, executions, writer, backend, req, seen, fetched, ret, answer, calls, after>>

\* state.rs:115-123: look the id up; a terminal entry is returned, otherwise
\* the guard is dropped and the call goes on to the fetch.
GetCheck(r) ==
    /\ pc[r] = "g_check"
    /\ LET entry == executions[req[r].id] IN
         /\ seen' = [seen EXCEPT ![r] = entry]
         /\ IF Lookup(entry) = "hit"
            THEN /\ ret' = [ret EXCEPT ![r] = Finish(req[r].op, Ok(Unwrap(entry)))]
                 /\ pc' = [pc EXCEPT ![r] = "done"]
            ELSE /\ ret' = ret
                 /\ pc' = [pc EXCEPT ![r] = "g_fetch"]
    /\ readers' = ReadGuardDropped(readers, r)
    /\ UNCHANGED <<probe, skip_auth, executions, writer, backend, req, fetched, answer, calls, after>>

\* state.rs:126-164: GET from the execution service, check the response,
\* decode the job and convert it.
GetFetch(r) ==
    /\ pc[r] = "g_fetch"
    /\ calls' = [calls EXCEPT ![r] = Bump(calls[r])]
    /\ \/ \E f \in BackendFailures :
            /\ answer' = [answer EXCEPT ![r] = f]
            /\ ret' = [ret EXCEPT ![r] = Finish(req[r].op, FetchError(executions[req[r].id], HttpGetError(f)))]
            /\ pc' = [pc EXCEPT ![r] = PcAfterError(pc[r])]
            /\ UNCHANGED <<backend, fetched>>
       \/ \E t \in Forward(backend[req[r].id]) :
            /\ backend' = [backend EXCEPT ![req[r].id] = t]
            /\ answer' = [answer EXCEPT ![r] = IF t = "absent" THEN "404" ELSE t]
            /\ IF t = "absent"
               THEN /\ ret' = [ret EXCEPT ![r] = Finish(req[r].op,
                                  FetchError(executions[req[r].id], HttpGetError("404")))]
                    /\ pc' = [pc EXCEPT ![r] = PcAfterError(pc[r])]
                    /\ fetched' = fetched
               ELSE /\ fetched' = [fetched EXCEPT ![r] =
                                  Some(JobToExecution(ExecutionJob(backend', req[r].id)))]
                    /\ pc' = [pc EXCEPT ![r] = "g_wlock"]
                    /\ ret' = ret
    /\ UNCHANGED <<probe, skip_auth, executions, readers, writer, req, seen, after>>

\* state.rs:168: self.executions.write().await
GetLockWrite(r) ==
    /\ pc[r] = "g_wlock"
    /\ readers = {} /\ writer = {}
    /\ writer' = {r}
    /\ pc' = [pc EXCEPT ![r] = "g_insert"]
    /\ UNCHANGED <<probe, skip_auth, executions, readers, backend, req, seen, fetched, ret, answer, calls, after>>

\* state.rs:169-172: insert, drop the guard, Ok(execution)
GetInsert(r) ==
    /\ pc[r] = "g_insert"
    /\ executions' = CacheInsert(executions, Unwrap(fetched[r]))
    /\ writer' = WriteGuardDropped(writer, r)
    /\ ret' = [ret EXCEPT ![r] = Finish(req[r].op, Ok(Unwrap(fetched[r])))]
    /\ pc' = [pc EXCEPT ![r] = "done"]
    /\ UNCHANGED <<probe, skip_auth, readers, backend, req, seen, fetched, answer, calls, after>>

\* ------------------------------------------------- specifications
\* The steps of the State Coordinator (state.rs).
Coordinator(r) ==
    \/ CreateSubmit(r)
    \/ CreateLockWrite(r)
    \/ CreateInsert(r)
    \/ GetLockRead(r)
    \/ GetCheck(r)
    \/ GetFetch(r)
    \/ GetLockWrite(r)
    \/ GetInsert(r)

\* The gateway: both surfaces, every credential and language of the model.
GatewayNext ==
    \/ \E r \in Reqs, h \in Headers, l \in RestLanguages : RestCreateExecution(r, h, l)
    \/ \E r \in Reqs, id \in Ids, h \in Headers : RestGetExecution(r, id, h)
    \/ \E r \in Reqs, id \in Ids, h \in Headers : RestGetExecutionStatus(r, id, h)
    \/ \E r \in Reqs, h \in Headers, l \in GrpcLanguages : GrpcCreateExecution(r, h, l)
    \/ \E r \in Reqs, id \in Ids, h \in Headers : GrpcGetExecution(r, id, h)
    \/ \E r \in Reqs : GrpcAuthenticate(r)
    \/ \E r \in Reqs, op \in UnimplementedOps, h \in Headers : GrpcUnimplemented(r, op, h)
    \/ \E r \in Reqs : Coordinator(r)

GatewaySpec == GatewayInit /\ [][GatewayNext]_vars

\* The State Coordinator as the REST handlers drive it: they pass every
\* request to it at once, so the three operations create, get and get_status
\* are the requests; the credential and the language of a request, which
\* play no part in state.rs, are held fixed.
Next ==
    \/ \E r \in Reqs : RestCreateExecution(r, BearerOk, "python")
    \/ \E r \in Reqs, id \in Ids : RestGetExecution(r, id, BearerOk)
    \/ \E r \in Reqs, id \in Ids : RestGetExecutionStatus(r, id, BearerOk)
    \/ \E r \in Reqs : Coordinator(r)

Spec == Init /\ [][Next]_vars

\* Spec with the scheduling the program runs under: the runtime polls every
\* task that can proceed, tokio's RwLock hands the lock over in FIFO order
\* once it is free, and a backend call returns (an answer or an error); so
\* a step of a request that stays possible is taken.
FairSpec == Init /\ [][Next]_vars /\ \A r \in Reqs : WF_vars(Coordinator(r))

\* The read path of the State Coordinator (state.rs:111-173).
GetSteps(r) ==
    \/ GetLockRead(r)
    \/ GetCheck(r)
    \/ GetFetch(r)
    \/ GetLockWrite(r)
    \/ GetInsert(r)

\* Gets alone, over every slot: two successive gets beside a concurrent one.
ReadersNext ==
    \/ \E r \in Slots, id \in Ids : RestGetExecution(r, id, BearerOk)
    \/ \E r \in Slots : GetSteps(r)

ReadersSpec == Init /\ [][ReadersNext]_vars

\* ------------------------------------------------- translation functions
\* The translation functions of the gateway, each applied to every input of
\* a bounded set; the gateway itself stands still.
gatewayVars == <<skip_auth, executions, readers, writer, backend, pc, req, seen, fetched,
                 ret, answer, calls, after>>

Probe(fn, input, output) == [fn |-> fn, in |-> input, out |-> output]

\* Authorization headers: absent, not text, other schemes, Bearer with a
\* token, with the sentinel and with an empty token.
AllHeaders ==
    {None} \cup {Some(<<scheme, token>>) :
                    scheme \in {"Bearer", "Basic", "bearer", "opaque"},
                    token \in {"tok", "invalid", "", "dev-token"}}

\* main.rs:65-71 and auth.rs:37-69: the flag is read, the interceptor built
\* with it authenticates a request
ApplyAuthenticate ==
    /\ \E env \in SkipAuthEnvs, header \in AllHeaders :
          probe' = Probe("authenticate", [env |-> env, header |-> header],
                         authenticate(SkipAuthFlag(env), header))
    /\ UNCHANGED gatewayVars

\* clients/execution.rs:123-138, then grpc.rs:39-51 on the enum it gives
ApplyLanguageToProto ==
    /\ \E lang \in LanguageStrings :
          probe' = Probe("language_to_proto", lang,
                         [proto |-> language_to_proto(lang),
                          name |-> GrpcLanguageName(language_to_proto(lang))])
    /\ UNCHANGED gatewayVars

\* state.rs:84-90 and 148-154
ApplyJobToStatus ==
    /\ \E op \in {"submit", "fetch"}, status \in JobStatus :
          probe' = Probe("JobToStatus", [op |-> op, status |-> status], JobToStatus(status))
    /\ UNCHANGED gatewayVars

\* clients/execution.rs:67 and 103
ApplyProtoToStatus ==
    /\ \E op \in {"submit", "fetch"}, status \in ProtoStatuses :
          probe' = Probe("proto_to_status", [op |-> op, status |-> status],
                         proto_to_status(status))
    /\ UNCHANGED gatewayVars

\* state.rs:126-164
ApplyHttpGetExecution ==
    /\ \E resp \in HttpResponses, id \in Ids, status \in JobStatus :
          probe' = Probe("HttpGetExecution", [resp |-> resp, id |-> id, status |-> status],
                         HttpGetExecution(resp, id, status))
    /\ UNCHANGED gatewayVars

\* clients/execution.rs:80-121
ApplyRpcGetExecution ==
    /\ \E resp \in RpcResponses :
          probe' = Probe("RpcGetExecution", resp, RpcGetExecution(resp))
    /\ UNCHANGED gatewayVars

\* error.rs:9-24: the variants of ApiError, and texts a variant may carry
ApiErrorKinds == {"NotFound", "BadRequest", "Internal", "ServiceUnavailable", "RateLimited"}
ErrorTexts == BackendFailures \cup {"uuid", ""}

\* error.rs:33-50: IntoResponse for ApiError
ApplyIntoResponse ==
    /\ \E kind \in ApiErrorKinds, cause \in ErrorTexts :
          probe' = Probe("into_response", Err(kind, cause), RestResponse(Err(kind, cause)))
    /\ UNCHANGED gatewayVars

\* grpc.rs:54-64: the timeout of the internal request
ApplyGrpcTimeout ==
    /\ \E timeout \in {None} \cup {Some(d) : d \in ProtoDurations} :
          probe' = Probe("GrpcTimeoutSeconds", timeout, GrpcTimeoutSeconds(timeout))
    /\ UNCHANGED gatewayVars

\* clients/execution.rs:46-49: the timeout of the backend request
ApplyClientTimeout ==
    /\ \E timeout_seconds \in {None} \cup {Some(s) : s \in UnsignedSeconds} :
          probe' = Probe("ClientTimeout", timeout_seconds, ClientTimeout(timeout_seconds))
    /\ UNCHANGED gatewayVars

TranslationNext ==
    \/ ApplyAuthenticate
    \/ ApplyLanguageToProto
    \/ ApplyJobToStatus
    \/ ApplyProtoToStatus
    \/ ApplyHttpGetExecution
    \/ ApplyRpcGetExecution
    \/ ApplyIntoResponse
    \/ ApplyGrpcTimeout
    \/ ApplyClientTimeout

TranslationSpec == Init /\ [][TranslationNext]_vars

\* ================================================= properties
TerminalStatuses == {"Completed", "Failed", "Timeout"}
NonTerminalStatuses == {"Pending", "Running"}

IsGet(r) == req[r].op = "get"
IsCreate(r) == req[r].op = "create"
Entry(r) == executions[req[r].id]

\* the step by which request r leaves the position p
Leaves(r, p) == pc[r] = p /\ (pc'[r] # p \/ ret'[r] # ret[r] \/ calls'[r] # calls[r])

\* ------------------------------------------------- C1
\* C1: a get(id) that finds a cache entry with a terminal status (Completed,
\* Failed or Timeout) returns exactly that entry, issues no backend call and
\* leaves the cache (and the backend) as they are.
C1_Step ==
    \A r \in Reqs :
        (IsGet(r) /\ Leaves(r, "g_check") /\ IsSome(Entry(r))
                  /\ Unwrap(Entry(r)).status \in TerminalStatuses)
        => /\ pc'[r] = "done"
           /\ ret'[r] = Ok(Unwrap(Entry(r)))
           /\ calls'[r] = 0
           /\ answer'[r] = "none"
           /\ executions' = executions
           /\ backend' = backend

C1_TerminalEntryServedFromCache == [][C1_Step]_vars

C1_Witness ==
    \E r \in Reqs :
        /\ IsGet(r) /\ pc[r] = "done"
        /\ IsSome(seen[r]) /\ Unwrap(seen[r]).status \in TerminalStatuses
        /\ ret[r] = Ok(Unwrap(seen[r]))
        /\ calls[r] = 0

\* ------------------------------------------------- C2
\* C2: a get(id) that finds a cache entry with a non-terminal status (Pending
\* or Running) goes on to the backend; the fetch is one backend call; the
\* fetched execution overwrites the cache entry and is what the get returns,
\* also when it equals the entry that was cached.  A get that found such an
\* entry and has ended has issued exactly one backend call.
C2_Step ==
    \A r \in Reqs :
        /\ (IsGet(r) /\ Leaves(r, "g_check") /\ IsSome(Entry(r))
                     /\ Unwrap(Entry(r)).status \in NonTerminalStatuses)
           => (pc'[r] = "g_fetch" /\ calls'[r] = 0 /\ ret'[r] = NoRet)
        /\ (IsGet(r) /\ IsSome(seen[r]) /\ Leaves(r, "g_fetch"))
           => /\ calls'[r] = 1
              /\ pc'[r] \in {"g_wlock", "done"}
              /\ pc'[r] = "g_wlock" =>
                    /\ answer'[r] \in JobStatus
                    /\ fetched'[r] = Some(JobToExecution(ExecutionJob(backend', req[r].id)))
              /\ pc'[r] = "done" => ret'[r].kind # "Ok"
        /\ (IsGet(r) /\ IsSome(seen[r]) /\ Leaves(r, "g_insert"))
           => /\ IsSome(fetched[r])
              /\ executions' = [executions EXCEPT ![req[r].id] = fetched[r]]
              /\ ret'[r] = Ok(Unwrap(fetched[r]))
              /\ pc'[r] = "done"
              /\ calls'[r] = 1

C2_NonTerminalEntryRefetched == [][C2_Step]_vars

\* a get found a Running entry, fetched the same Running execution again,
\* wrote it and returned it after one backend call
C2_Witness ==
    \E r \in Reqs :
        /\ IsGet(r) /\ pc[r] = "done"
        /\ IsSome(seen[r]) /\ Unwrap(seen[r]).status = "Running"
        /\ fetched[r] = seen[r]
        /\ ret[r] = Ok(Unwrap(fetched[r]))
        /\ calls[r] = 1

\* ------------------------------------------------- C3
\* How far along Pending -> Running -> terminal a status is.
StatusRank(status) ==
    CASE status = "Pending" -> 0
      [] status = "Running" -> 1
      [] OTHER              -> 2

\* C3: every write to a cache entry carries the same or newer backend truth
\* than the entry it replaces; in particular a terminal entry is never
\* replaced by a non-terminal one.  (The backend of the model only moves
\* forward.)
C3_Step ==
    \A id \in Ids :
        IsSome(executions[id])
        => /\ IsSome(executions'[id])
           /\ StatusRank(Unwrap(executions'[id]).status)
                 >= StatusRank(Unwrap(executions[id]).status)

C3_WritesNeverGoBack == [][C3_Step]_vars

\* ------------------------------------------------- C4
\* The request of slot r does not pass the authentication of auth.rs.
AuthFails(r) ==
    /\ req[r].op \in {"create", "get", "get_status"}
    /\ authenticate(skip_auth, req[r].header).kind # "Ok"

\* C4: on both surfaces a request whose authentication fails issues no
\* backend call and ends as Unauthenticated.
C4_AuthenticatedBeforeBackend ==
    \A r \in Reqs :
        AuthFails(r)
        => /\ calls[r] = 0
           /\ pc[r] = "done" => ret[r].kind = "Unauthenticated"

\* ------------------------------------------------- C5
\* C5: create issues exactly one backend submit call, whatever the cache
\* holds; when the submit succeeds the returned execution is inserted under
\* its own identifier, replacing the entry that identifier may have, and that
\* execution is what create returns.
C5_Step ==
    \A r \in Reqs :
        /\ (IsCreate(r) /\ Leaves(r, "c_submit"))
           => /\ calls[r] = 0 /\ calls'[r] = 1
              /\ executions' = executions
              /\ pc'[r] \in {"c_wlock", "done"}
              /\ pc'[r] = "c_wlock" => (IsSome(fetched'[r]) /\ ret'[r] = NoRet)
              /\ pc'[r] = "done" => ret'[r].kind # "Ok"
        /\ (IsCreate(r) /\ Leaves(r, "c_insert"))
           => /\ IsSome(fetched[r])
              /\ executions' = [executions EXCEPT ![Unwrap(fetched[r]).id] = fetched[r]]
              /\ ret'[r] = Ok(Unwrap(fetched[r]))
              /\ pc'[r] = "done"
              /\ calls'[r] = 1
        /\ (IsCreate(r) /\ pc[r] # "done" /\ pc'[r] = "done" /\ ret'[r].kind = "Ok")
           => pc[r] = "c_insert"

C5_CreateSubmitsAndOverwrites == [][C5_Step]_vars

\* a create has returned an execution after one backend call; a get of the
\* same identifier has written a different execution; the cache holds what
\* the create returned, so the create's insert replaced the get's entry
C5_Witness ==
    \E r \in Reqs, q \in Reqs :
        /\ IsCreate(r) /\ pc[r] = "done" /\ ret[r].kind = "Ok" /\ calls[r] = 1
        /\ IsGet(q) /\ pc[q] = "done" /\ ret[q].kind = "Ok" /\ calls[q] = 1
        /\ req[q].id = Unwrap(ret[r].exec).id
        /\ ret[q].exec # ret[r].exec
        /\ executions[req[q].id] = ret[r].exec

\* ------------------------------------------------- C6
\* C6: a get(id) that finds no cache entry for id fetches the execution from
\* the backend (one call), inserts it under id and returns it; and when any
\* get(id) returns an execution, the cache holds that execution under id.
C6_Step ==
    \A r \in Reqs :
        /\ (IsGet(r) /\ Leaves(r, "g_check") /\ ~IsSome(Entry(r)))
           => (pc'[r] = "g_fetch" /\ calls'[r] = 0 /\ ret'[r] = NoRet)
        /\ (IsGet(r) /\ ~IsSome(seen[r]) /\ Leaves(r, "g_fetch"))
           => /\ calls'[r] = 1
              /\ pc'[r] = "g_wlock" =>
                    fetched'[r] = Some(JobToExecution(ExecutionJob(backend', req[r].id)))
        /\ (IsGet(r) /\ ~IsSome(seen[r]) /\ Leaves(r, "g_insert"))
           => /\ IsSome(fetched[r])
              /\ executions' = [executions EXCEPT ![req[r].id] = fetched[r]]
              /\ ret'[r] = Ok(Unwrap(fetched[r]))
        /\ (IsGet(r) /\ pc[r] # "done" /\ pc'[r] = "done" /\ ret'[r].kind = "Ok")
           => executions'[req[r].id] = ret'[r].exec

C6_MissFetchesInsertsReturns == [][C6_Step]_vars

C6_Witness ==
    \E r \in Reqs :
        /\ IsGet(r) /\ pc[r] = "done" /\ ~IsSome(seen[r])
        /\ ret[r].kind = "Ok" /\ calls[r] = 1
        /\ executions[req[r].id] = ret[r].exec

\* ------------------------------------------------- C7
\* The request of slot r got as far as the State Coordinator.
Coordinated(r) == pc[r] = "done" /\ ret[r].kind \in {"Ok", "NotFound", "Internal"}

\* No other request is under way between the arrival of r1 and the end of r2.
Alone(r1, r2) ==
    \A q \in Reqs \ {r1, r2} : pc[q] = "idle" \/ q \in after[r1] \/ r2 \in after[q]

\* C7: the cache has no entry for X and the backend reports X as terminal
\* (completed, failed or timeout): of two get(X) issued one after the other
\* the first issues one backend call and the second none, and the second
\* returns what the first returned.
C7_TwoGetsOneCall ==
    \A r1 \in Reqs, r2 \in Reqs :
        ( /\ IsGet(r1) /\ IsGet(r2) /\ req[r1].id = req[r2].id
          /\ Coordinated(r1) /\ Coordinated(r2)
          /\ r1 \in after[r2]
          /\ Alone(r1, r2)
          /\ ~IsSome(seen[r1])
          /\ answer[r1] \in {"completed", "failed", "timeout"} )
        => /\ calls[r1] = 1
           /\ calls[r2] = 0
           /\ ret[r2] = ret[r1]

\* the case of a job the backend reports as timeout
C7_Witness ==
    \E r1 \in Reqs, r2 \in Reqs :
        /\ IsGet(r1) /\ IsGet(r2) /\ req[r1].id = req[r2].id
        /\ Coordinated(r1) /\ Coordinated(r2)
        /\ r1 \in after[r2]
        /\ ~IsSome(seen[r1])
        /\ answer[r1] = "timeout"
        /\ calls[r1] + calls[r2] = 1

\* ------------------------------------------------- C8
IsStatus(r) == req[r].op = "get_status"

\* get(id).status, or the error of get(id)
StatusOf(getResult) ==
    IF getResult.kind = "Ok" THEN OkStatus(Unwrap(getResult.exec).status) ELSE getResult

\* a get_status and a get of the same id that found the same cache entry and
\* got the same answer from the backend: same number of backend calls, and
\* the outcome of get_status is the status (or the error) of the get
C8_Pairs ==
    \A g \in Reqs, s \in Reqs :
        ( /\ IsGet(g) /\ IsStatus(s) /\ req[g].id = req[s].id
          /\ Coordinated(g) /\ pc[s] = "done"
          /\ seen[g] = seen[s] /\ answer[g] = answer[s] )
        => /\ calls[s] = calls[g]
           /\ fetched[s] = fetched[g]
           /\ ret[s] = StatusOf(ret[g])

\* What get_execution returns for id when its lookup finds entry and the
\* backend, if it is called, answers ans.
GetOutcome(entry, ans, id) ==
    IF Lookup(entry) = "hit" THEN Ok(Unwrap(entry))
    ELSE IF ans = "404" THEN Err("NotFound", "")
    ELSE IF ans \in BackendFailures THEN Err("Internal", ans)
    ELSE Ok(JobToExecution(JobOf(id, ans)))

\* every get and every get_status that has ended: the backend was called
\* unless the lookup was a hit, and the outcome is that of get_execution,
\* of which get_status keeps the status
C8_Same ==
    \A r \in Reqs :
        ((IsGet(r) /\ Coordinated(r)) \/ (IsStatus(r) /\ pc[r] = "done"))
        => /\ calls[r] = IF Lookup(seen[r]) = "hit" THEN 0 ELSE 1
           /\ ret[r] = IF IsStatus(r)
                       THEN StatusOf(GetOutcome(seen[r], answer[r], req[r].id))
                       ELSE GetOutcome(seen[r], answer[r], req[r].id)

\* the effect of a step on the cache is the same for get_status as for get
C8_Effect ==
    \A r \in Reqs :
        (IsGet(r) \/ IsStatus(r))
        => /\ (Leaves(r, "g_rlock") \/ Leaves(r, "g_check") \/ Leaves(r, "g_fetch")
                  \/ Leaves(r, "g_wlock"))
              => executions' = executions
           /\ Leaves(r, "g_insert")
              => executions' = [executions EXCEPT ![req[r].id] = fetched[r]]

\* C8: get_status(id) behaves as get(id) does: same backend calls, same
\* effect on the cache, and its outcome is the status of the execution
\* get(id) returns, or the error get(id) returns.
C8_StatusIsGetStatus == [][C8_Pairs' /\ C8_Same' /\ C8_Effect]_vars

\* a get_status that found the non-terminal entry a get had written, fetched
\* the job again and returned the status of what it fetched and wrote
C8_Witness ==
    \E g \in Reqs, s \in Reqs :
        /\ IsGet(g) /\ IsStatus(s) /\ req[g].id = req[s].id
        /\ Coordinated(g) /\ pc[s] = "done"
        /\ seen[s] = ret[g].exec /\ IsSome(seen[s]) /\ calls[s] = 1
        /\ IsSome(fetched[s]) /\ executions[req[s].id] = fetched[s]
        /\ ret[s] = OkStatus(Unwrap(fetched[s]).status)

\* a get and a get_status of the same id that both found no entry and got
\* the same failure from the backend
C8_WitnessPair ==
    \E g \in Reqs, s \in Reqs :
        /\ IsGet(g) /\ IsStatus(s) /\ req[g].id = req[s].id
        /\ Coordinated(g) /\ pc[s] = "done"
        /\ seen[g] = seen[s] /\ answer[g] = answer[s] /\ answer[s] = "decode"
        /\ ret[s] = ret[g]

\* ------------------------------------------------- C9
\* C9: when the backend call of a get, get_status or create fails (transport
\* error, non-success status, 404, undecodable body) the coordinator returns
\* that error, also when the cache holds an entry for the id, and the cache
\* is as it was.
C9_Step ==
    \A r \in Reqs :
        ( /\ Leaves(r, "g_fetch") \/ Leaves(r, "c_submit")
          /\ answer'[r] \in BackendFailures \cup {"404"} )
        => /\ pc'[r] = "done"
           /\ ret'[r] = IF answer'[r] = "404" THEN Err("NotFound", "")
                        ELSE Err("Internal", answer'[r])
           /\ executions' = executions
           /\ fetched'[r] = None

C9_BackendErrorsPropagate == [][C9_Step]_vars

\* a get found a non-terminal entry, its fetch failed, it returned the error
\* and the entry is still in the cache
C9_Witness ==
    \E r \in Reqs :
        /\ IsGet(r) /\ pc[r] = "done"
        /\ IsSome(seen[r]) /\ executions[req[r].id] = seen[r]
        /\ answer[r] = "transport"
        /\ ret[r] = Err("Internal", "transport")

\* ------------------------------------------------- C10
\* C10: no request issues more than one backend call; a create that has
\* returned from the coordinator has issued exactly one, a get or get_status
\* that has returned has issued one or, when a terminal entry was cached,
\* none, whether the call failed or not.
C10_NoRetry ==
    \A r \in Reqs :
        /\ calls[r] <= 1
        /\ (IsCreate(r) /\ Coordinated(r)) => calls[r] = 1
        /\ ((IsGet(r) \/ IsStatus(r)) /\ Coordinated(r))
           => calls[r] = IF answer[r] = "none" THEN 0 ELSE 1

\* a create and a get whose backend calls failed, with one call each
C10_Witness ==
    \E c \in Reqs, g \in Reqs :
        /\ IsCreate(c) /\ pc[c] = "done" /\ answer[c] \in BackendFailures /\ calls[c] = 1
        /\ IsGet(g) /\ pc[g] = "done" /\ answer[g] \in BackendFailures /\ calls[g] = 1

\* ------------------------------------------------- C11
IsLookup(r) == req[r].op \in {"get", "get_status"}

\* The user the interceptor resolved for the request of slot r.
UserOf(r) == Unwrap(authenticate(skip_auth, req[r].header).exec).user_id

\* C11: a get (or get_status) of an id for which the lookup found no entry
\* and the backend answers 404 ends at that step as NotFound; the REST
\* surface answers HTTP 404 with the kind not_found, the RPC surface answers
\* with the status code NotFound; the cache is as it was and holds no entry
\* for the id.
C11_Step ==
    \A r \in Reqs :
        (IsLookup(r) /\ Leaves(r, "g_fetch") /\ ~IsSome(seen[r]) /\ answer'[r] = "404")
        => /\ pc'[r] = "done"
           /\ ret'[r] = Err("NotFound", "")
           /\ executions' = executions
           /\ executions'[req[r].id] = None
           /\ req[r].surface = "rest"
              => /\ RestResponse(ret'[r]).http = 404
                 /\ RestResponse(ret'[r]).error = "not_found"
                 /\ RestResponse(ret'[r]).body = None
           /\ req[r].surface = "grpc"
              => /\ GrpcGetResponse(ret'[r], UserOf(r)).code = "NotFound"
                 /\ GrpcGetResponse(ret'[r], UserOf(r)).execution = None

C11_UnknownIdIsNotFound == [][C11_Step]_vars

\* a REST get and an RPC get of ids nobody knows have both ended as NotFound,
\* with 404 and with the code NotFound, and the cache is empty
C11_Witness ==
    \E q \in Reqs, g \in Reqs :
        /\ IsGet(q) /\ req[q].surface = "rest" /\ pc[q] = "done"
        /\ IsGet(g) /\ req[g].surface = "grpc" /\ pc[g] = "done"
        /\ answer[q] = "404" /\ answer[g] = "404"
        /\ RestResponse(ret[q]).http = 404
        /\ GrpcGetResponse(ret[g], UserOf(g)).code = "NotFound"
        /\ \A id \in Ids : executions[id] = None

\* ------------------------------------------------- C12
\* C12: the fetch of the backend client, on the HTTP+JSON transport and on
\* the binary RPC transport: a "not found" response of the backend (HTTP 404,
\* RPC code NotFound) becomes NotFound; every other failure (the call cannot
\* be sent or fails with another code, another HTTP status that is no
\* success, a body that does not decode, a response without execution, an
\* identifier that is no UUID) becomes Internal; NotFound comes from nothing
\* but a "not found" response.
C12_FetchClassification ==
    /\ probe.fn = "HttpGetExecution"
       => LET resp == probe.in.resp
              notFound == resp.sent /\ resp.code = 404
              success == resp.sent /\ resp.code \in 200..299
          IN /\ notFound => probe.out = Err("NotFound", "")
             /\ ~notFound => probe.out.kind # "NotFound"
             /\ (~notFound /\ ~(success /\ resp.body = "job")) => probe.out.kind = "Internal"
             /\ (success /\ resp.body = "job") => probe.out.kind = "Ok"
    /\ probe.fn = "RpcGetExecution"
       => LET resp == probe.in
              notFound == resp.code = "NotFound"
              good == /\ resp.code = "Ok" /\ IsSome(resp.execution)
                      /\ Unwrap(resp.execution).id # BadIdText
          IN /\ notFound => probe.out = Err("NotFound", "")
             /\ ~notFound => probe.out.kind # "NotFound"
             /\ (~notFound /\ ~good) => probe.out.kind = "Internal"
             /\ good => probe.out.kind = "Ok"

\* the RPC fetch got a response without execution and reported Internal
C12_Witness ==
    /\ probe.fn = "RpcGetExecution"
    /\ probe.in.code = "Ok" /\ probe.in.execution = None
    /\ probe.out.kind = "Internal"

\* ------------------------------------------------- C13
\* The internal status a backend status collapses onto, by name.
Collapsed(status) ==
    CASE status \in {"queued", "Queued", "Preparing", "Pending"} -> "Pending"
      [] status \in {"running", "Running"}                        -> "Running"
      [] status \in {"completed", "Completed"}                    -> "Completed"
      [] status \in {"failed", "Failed", "Cancelled"}             -> "Failed"
      [] status \in {"timeout", "Timeout"}                        -> "Timeout"

\* C13: on both backend transports and for submit and fetch alike, queued,
\* preparing and pending become Pending, running becomes Running, completed
\* becomes Completed, failed and cancelled become Failed and timeout becomes
\* Timeout.
C13_StatusCollapse ==
    /\ probe.fn = "JobToStatus" => probe.out = Collapsed(probe.in.status)
    /\ (probe.fn = "proto_to_status" /\ probe.in.status \in ProtoStatusEnum \ {"Unspecified"})
       => probe.out = Collapsed(probe.in.status)

\* ------------------------------------------------- C14
\* The language of the create request of slot r maps to no known language:
\* a string the mapping sends to Unspecified (REST), Unspecified or no value
\* of the enum (RPC).
UnknownLanguage(r) ==
    /\ IsCreate(r)
    /\ IF req[r].surface = "rest"
       THEN language_to_proto(req[r].lang) = "Unspecified"
       ELSE req[r].lang \notin LanguageEnum \ {"Unspecified"}

\* C14: a create request whose language maps to no known language issues no
\* backend call, caches nothing and ends as a rejection.
C14_UnknownLanguageRejected ==
    \A r \in Reqs :
        UnknownLanguage(r)
        => /\ calls[r] = 0
           /\ fetched[r] = None
           /\ pc[r] = "done"
              => ret[r].kind \in {"InvalidArgument", "BadRequest", "Unauthenticated"}

\* ------------------------------------------------- C15
\* The strings of the model that are no language under any spelling.
UnrecognizedLanguages == {"klingon", ""}

\* C15: for each of the eleven canonical language strings, the string mapped
\* to the enum (language_to_proto) and the enum mapped back to a string (the
\* match of the gRPC adapter) is the string again; a string that is no
\* language maps to Unspecified.
C15_LanguageRoundTrip ==
    probe.fn = "language_to_proto"
    => /\ probe.in \in CanonicalLanguages => probe.out.name = Some(probe.in)
       /\ probe.in \in UnrecognizedLanguages => probe.out.proto = "Unspecified"

\* ------------------------------------------------- C16
\* The header is the text "Bearer <token>".
IsBearer(header) == IsSome(header) /\ Unwrap(header)[1] = "Bearer"

\* C16: with the bypass off, authenticate fails with Unauthenticated when
\* the authorization header is absent, when it is not of the form
\* "Bearer <token>" and when the token is the sentinel "invalid"; otherwise
\* it yields an AuthContext whose token is the token presented.
C16_Authenticate ==
    (probe.fn = "authenticate" /\ probe.in.env # Some("true"))
    => LET header == probe.in.header IN
       IF ~IsBearer(header) \/ Unwrap(header)[2] = "invalid"
       THEN probe.out.kind = "Unauthenticated"
       ELSE /\ probe.out.kind = "Ok"
            /\ Unwrap(probe.out.exec).token = Unwrap(header)[2]

\* a Bearer token other than the sentinel was accepted with the bypass off
C16_Witness ==
    /\ probe.fn = "authenticate"
    /\ probe.in.env = None /\ probe.in.header = BearerOk
    /\ probe.out.kind = "Ok" /\ Unwrap(probe.out.exec).token = "tok"

\* ------------------------------------------------- C17
\* auth.rs:41-45: the identity substituted when authentication is skipped
DevIdentity == AuthContext("dev-user", Some("dev-tenant"), "dev-token")

\* C17: unless SKIP_AUTH is exactly "true" (unset, "false", or a text that is
\* no boolean) the credentials are enforced: a request without a valid
\* Bearer token is Unauthenticated and nobody gets the development identity.
\* When SKIP_AUTH is "true", authenticate returns the development identity
\* whatever the request carries.
C17_BypassOnlyWhenConfigured ==
    probe.fn = "authenticate"
    => LET header == probe.in.header IN
       IF probe.in.env = Some("true")
       THEN probe.out = AuthOk(DevIdentity)
       ELSE /\ (~IsBearer(header) \/ Unwrap(header)[2] = "invalid")
               => probe.out.kind = "Unauthenticated"
            /\ probe.out.kind = "Ok" => Unwrap(probe.out.exec).user_id # "dev-user"

\* SKIP_AUTH holds a text that is no boolean and a request without header is
\* turned away
C17_Witness ==
    /\ probe.fn = "authenticate"
    /\ probe.in.env = Some("TRUE") /\ probe.in.header = None
    /\ probe.out.kind = "Unauthenticated"

\* ------------------------------------------------- C18
IsUnimplemented(r) == req[r].op \in UnimplementedOps

\* C18: a request for an RPC operation that is not implemented
\* (ListExecutions, CancelExecution, StreamExecution, the five workspace
\* operations, GetMetrics) is answered, in the step in which it arrives, with
\* the status Unimplemented, whatever it carries and whatever the state is;
\* it issues no backend call and leaves the cache and the backend alone, and
\* its answer is never a success.
C18_Step ==
    \A r \in Reqs :
        /\ IsUnimplemented(r)'
           => /\ pc'[r] = "done"
              /\ ret'[r].kind = "Unimplemented"
              /\ calls'[r] = 0 /\ answer'[r] = "none" /\ fetched'[r] = None
        /\ (pc[r] = "idle" /\ IsUnimplemented(r)')
           => executions' = executions /\ backend' = backend

C18_UnimplementedIsExplicit == [][C18_Step]_vars

\* CancelExecution with a credential that is not valid was answered
\* Unimplemented while the cache held the execution of an earlier create
C18_Witness ==
    \E r \in Reqs, c \in Reqs :
        /\ req[r].op = "CancelExecution" /\ req[r].header = BearerInvalid
        /\ pc[r] = "done" /\ ret[r].kind = "Unimplemented"
        /\ IsCreate(c) /\ c \in after[r] /\ ret[c].kind = "Ok"
        /\ executions[Unwrap(ret[c].exec).id] = ret[c].exec

\* ------------------------------------------------- C19
\* What a client reads from a response: the kind of outcome and, on
\* success, the status, the result and the timestamps of the execution.
View(kind, status, result, created_at, started_at, completed_at) ==
    [kind |-> kind, status |-> status, result |-> result, created_at |-> created_at,
     started_at |-> started_at, completed_at |-> completed_at]

NoView(kind) == View(kind, "", None, None, None, None)

\* the status a JSON status string names
StatusOfJson(text) ==
    CASE text = "pending"   -> "Pending"
      [] text = "running"   -> "Running"
      [] text = "completed" -> "Completed"
      [] text = "failed"    -> "Failed"
      [] text = "timeout"   -> "Timeout"

\* the status a value of the wire enum names
StatusOfProto(value) ==
    CASE value = "PENDING"   -> "Pending"
      [] value = "RUNNING"   -> "Running"
      [] value = "COMPLETED" -> "Completed"
      [] value = "FAILED"    -> "Failed"
      [] value = "TIMEOUT"   -> "Timeout"

RestView(resp) ==
    IF resp.http = 200
    THEN LET e == Unwrap(resp.body) IN
         View("success", StatusOfJson(e.status), e.result, Some(e.created_at),
              e.started_at, e.completed_at)
    ELSE NoView(CASE resp.http = 404 -> "not-found"
                  [] resp.http = 500 -> "internal-error"
                  [] OTHER           -> "other")

\* the milliseconds of a Duration message
MillisOfProto(d) == d.seconds * 1000 + d.nanos \div 1000000

ResultOfProto(p) ==
    JobResult(p.exit_code, p.stdout, p.stderr, MillisOfProto(Unwrap(p.execution_time)))

DateTimeOfProto(t) == DateTime(t.seconds, t.nanos)

MapResultOfProto(o) == IF IsSome(o) THEN Some(ResultOfProto(Unwrap(o))) ELSE None
MapDateTimeOfProto(o) == IF IsSome(o) THEN Some(DateTimeOfProto(Unwrap(o))) ELSE None

GrpcView(resp) ==
    IF resp.code = "Ok"
    THEN LET e == Unwrap(resp.execution) IN
         View("success", StatusOfProto(e.status), MapResultOfProto(e.result),
              MapDateTimeOfProto(e.created_at),
              MapDateTimeOfProto(e.started_at),
              MapDateTimeOfProto(e.completed_at))
    ELSE NoView(CASE resp.code = "NotFound" -> "not-found"
                  [] resp.code = "Internal" -> "internal-error"
                  [] OTHER                  -> "other")

\* an RPC GetExecution g and a REST GET q of the same id whose lookups found
\* the same cache entry and whose backend calls, if any, got the same answer
SameCase(g, q) ==
    /\ IsGet(g) /\ req[g].surface = "grpc" /\ Coordinated(g)
    /\ IsGet(q) /\ req[q].surface = "rest" /\ Coordinated(q)
    /\ req[g].id = req[q].id
    /\ seen[g] = seen[q] /\ answer[g] = answer[q]

\* C19: an authenticated RPC GetExecution and a REST GET of the same id that
\* meet the same cache and backend state give the same outcome kind
\* (success, not found, internal error) and, on success, the same status,
\* result (exit code, stdout, stderr, duration) and timestamps.
C19_AdaptersAgree ==
    \A g \in Reqs, q \in Reqs :
        SameCase(g, q)
        => GrpcView(GrpcGetResponse(ret[g], UserOf(g))) = RestView(RestResponse(ret[q]))

\* both adapters returned the same completed execution, result included
C19_Witness ==
    \E g \in Reqs, q \in Reqs :
        /\ SameCase(g, q) /\ answer[g] = "completed"
        /\ RestView(RestResponse(ret[q])).kind = "success"
        /\ RestView(RestResponse(ret[q])).status = "Completed"
        /\ IsSome(GrpcView(GrpcGetResponse(ret[g], UserOf(g))).result)

\* ------------------------------------------------- C20
\* an execution carries a result only with a terminal status
ResultOnlyWhenTerminal(e) ==
    /\ IsSome(e.result) => e.status \in TerminalStatuses
    /\ e.status \in NonTerminalStatuses => e.result = None

WireOf(kind) ==
    CASE kind = "NotFound"           -> [http |-> 404, error |-> "not_found"]
      [] kind = "BadRequest"         -> [http |-> 400, error |-> "bad_request"]
      [] kind = "Internal"           -> [http |-> 500, error |-> "internal_error"]
      [] kind = "ServiceUnavailable" -> [http |-> 503, error |-> "service_unavailable"]
      [] kind = "RateLimited"        -> [http |-> 429, error |-> "rate_limited"]

\* C21: the REST response of an error has the status code and the kind
\* string of its kind alone (NotFound 404 not_found, BadRequest 400
\* bad_request, Internal 500 internal_error, ServiceUnavailable 503
\* service_unavailable, RateLimited 429 rate_limited), whatever text the
\* error carries, and it has both a kind string and a message.
C21_ErrorWire ==
    probe.fn = "into_response"
    => /\ probe.out.http = WireOf(probe.in.kind).http
       /\ probe.out.error = WireOf(probe.in.kind).error
       /\ probe.out.error # ""
       /\ probe.out.message # ""
       /\ probe.out.body = None

\* a rate-limited error carrying a text was answered with 429 rate_limited
C21_Witness ==
    /\ probe.fn = "into_response"
    /\ probe.in.kind = "RateLimited" /\ probe.in.cause = "transport"
    /\ probe.out.http = 429 /\ probe.out.error = "rate_limited"
    /\ probe.out.message = "Too many requests"

\* ------------------------------------------------- C22
\* What the caller of an answered request receives.
Received(r) ==
    IF req[r].surface = "rest" THEN RestResponse(ret[r])
    ELSE IF req[r].op = "create" THEN GrpcCreateResponse(ret[r], UserOf(r))
    ELSE GrpcGetResponse(ret[r], UserOf(r))

InternalFailure(r) == pc[r] = "done" /\ ret[r].kind = "Internal"

\* C22: two requests that fail with internal errors receive the same error
\* response whatever the causes of the two errors: on REST the same status
\* code, kind and message, on the RPC surface the same status code and
\* message for the same operation.
C22_InternalCauseHidden ==
    \A r1 \in Reqs, r2 \in Reqs :
        ( /\ InternalFailure(r1) /\ InternalFailure(r2)
          /\ req[r1].surface = req[r2].surface
          /\ req[r1].surface = "grpc" => req[r1].op = req[r2].op )
        => Received(r1) = Received(r2)

\* a REST create whose backend call failed in transport and a REST get whose
\* backend answer could not be decoded were answered alike
C22_Witness ==
    \E r1 \in Reqs, r2 \in Reqs :
        /\ InternalFailure(r1) /\ InternalFailure(r2)
        /\ req[r1].surface = "rest" /\ req[r2].surface = "rest"
        /\ IsCreate(r1) /\ ret[r1].cause = "transport"
        /\ IsGet(r2) /\ ret[r2].cause = "decode"
        /\ Received(r1) = Received(r2)
        /\ Received(r1).message = "Internal server error"

\* ------------------------------------------------- C23
\* The identifier a request concerns: the one a get asks for, the one of the
\* execution a create has built from the backend's answer.
Concerns(r, id) ==
    IF IsCreate(r) THEN IsSome(fetched[r]) /\ Unwrap(fetched[r]).id = id
    ELSE req[r].id = id

\* C23: whenever the cache entry of an identifier changes, the step is the
\* insert of a get or create that concerns that identifier, and no entry is
\* ever removed; so a request that concerns A leaves the entry of every
\* B # A as it was, under every interleaving.
C23_Step ==
    \A id \in Ids :
        executions'[id] # executions[id]
        => /\ IsSome(executions'[id])
           /\ \E r \in Reqs :
                 /\ Concerns(r, id)
                 /\ pc[r] \in {"c_insert", "g_insert"} /\ pc'[r] = "done"
                 /\ \A q \in Reqs \ {r} : pc'[q] = pc[q]

C23_OtherEntriesUntouched == [][C23_Step]_vars

\* a get of one identifier and a create of another were under way together;
\* the get inserted first, the create after it, and the cache holds both
\* executions
C23_Witness ==
    \E r \in Reqs, q \in Reqs :
        /\ IsGet(q) /\ IsCreate(r) /\ q \notin after[r] /\ r \notin after[q]
        /\ pc[q] = "done" /\ pc[r] = "done" /\ ret[q].kind = "Ok" /\ ret[r].kind = "Ok"
        /\ req[q].id # Unwrap(ret[r].exec).id
        /\ executions[req[q].id] = ret[q].exec
        /\ executions[Unwrap(ret[r].exec).id] = ret[r].exec

\* ------------------------------------------------- C24
\* The get of slot r has returned an execution.
GotStatus(r) == IsGet(r) /\ pc[r] = "done" /\ ret[r].kind = "Ok"

\* C24: with a backend that only moves forward, when a successful get(id)
\* has completed before another get(id) starts, the later get never returns
\* a status earlier in Pending -> Running -> terminal than the earlier one
\* returned, whatever other gets of the same id do meanwhile.
C24_MonotonicReads ==
    \A r1 \in Slots, r2 \in Slots :
        ( /\ GotStatus(r1) /\ GotStatus(r2)
          /\ req[r1].id = req[r2].id
          /\ r1 \in after[r2] )
        => StatusRank(Unwrap(ret[r2].exec).status) >= StatusRank(Unwrap(ret[r1].exec).status)

\* a get that ran beside the first one wrote its older answer over the
\* first one's terminal entry; the second get, started after the first had
\* returned Completed, found that older entry and still returned Completed
C24_Witness ==
    \E a \in Slots, r1 \in Slots, r2 \in Slots :
        /\ GotStatus(a) /\ GotStatus(r1) /\ GotStatus(r2)
        /\ req[a].id = req[r1].id /\ req[r1].id = req[r2].id
        /\ a \notin after[r1] /\ r1 \notin after[a]
        /\ r1 \in after[r2] /\ a \in after[r2]
        /\ Unwrap(ret[a].exec).status = "Running"
        /\ Unwrap(ret[r1].exec).status = "Completed"
        /\ IsSome(seen[r2]) /\ Unwrap(seen[r2]).status = "Running"
        /\ Unwrap(ret[r2].exec).status = "Completed"

\* ------------------------------------------------- C25
\* The request of slot r is suspended on a backend call.
InFlight(r) == pc[r] \in {"c_submit", "g_fetch"}

\* C25: a request suspended on a backend call holds neither lock; the read
\* lock is held only during the lookup and the write lock only for the
\* insert, after the fetch has returned; so a get waiting for the read lock
\* can take it whenever the other requests are idle, answered or suspended
\* on backend calls.
C25_NoLockAcrossBackendCall ==
    /\ \A r \in Slots : InFlight(r) => (r \notin readers /\ r \notin writer)
    /\ \A r \in Slots : r \in readers => pc[r] = "g_check"
    /\ \A r \in Slots : r \in writer => (pc[r] \in {"c_insert", "g_insert"} /\ IsSome(fetched[r]))
    /\ \A r \in Slots :
          ( /\ pc[r] = "g_rlock"
            /\ \A q \in Slots \ {r} : pc[q] \in {"idle", "done"} \/ InFlight(q) )
          => writer = {}

\* a get found a terminal entry and returned it without a backend call
\* while the backend call of a request that had arrived before it was
\* still in flight
C25_Witness ==
    \E r \in Slots, q \in Slots :
        /\ q < r /\ InFlight(q)
        /\ IsGet(r) /\ pc[r] = "done" /\ ret[r].kind = "Ok" /\ calls[r] = 0
        /\ IsSome(seen[r]) /\ Unwrap(seen[r]).status \in TerminalStatuses

\* ------------------------------------------------- C26
\* C26: every request that has arrived eventually returns a result or an
\* error, given that every backend call returns and the lock is granted
\* fairly; in particular no request waits for the cache lock for ever.
C26_EveryRequestCompletes ==
    \A r \in Reqs : (pc[r] # "idle") ~> (pc[r] = "done")

\* a request waits for the write lock, to insert what it fetched, while
\* another request holds it
C26_Witness ==
    \E r \in Reqs, q \in Reqs :
        /\ r # q
        /\ pc[r] \in {"c_wlock", "g_wlock"} /\ IsSome(fetched[r])
        /\ writer = {q} /\ pc[q] \in {"c_insert", "g_insert"}

\* ------------------------------------------------- C27
\* C27: the optional timeout keeps its value: absent stays absent; the RPC
\* adapter turns a duration of s seconds into s seconds of the internal
\* request, and the backend client turns s seconds into a duration of s
\* seconds and zero nanos; the forwarded timeout is never larger than the
\* supplied one, for every s of the type, negative and very large included.
C27_TimeoutPreserved ==
    /\ probe.fn = "GrpcTimeoutSeconds"
       => IF IsSome(probe.in)
          THEN /\ probe.out = Some(Unwrap(probe.in).seconds)
               /\ Unwrap(probe.out) <= Unwrap(probe.in).seconds
          ELSE probe.out = None
    /\ probe.fn = "ClientTimeout"
       => IF IsSome(probe.in)
          THEN /\ probe.out = Some([seconds |-> Unwrap(probe.in), nanos |-> 0])
               /\ Unwrap(probe.out).seconds <= Unwrap(probe.in)
          ELSE probe.out = None

\* ------------------------------------------------- C28
\* C28: every cache entry is stored under the identifier it contains.
C28_KeyIsIdentifier ==
    \A id \in Ids : IsSome(executions[id]) => Unwrap(executions[id]).id = id

\* the cache holds an entry a create inserted, under the identifier the
\* backend assigned, and an entry a get inserted
C28_Witness ==
    \E r \in Reqs, q \in Reqs :
        /\ IsCreate(r) /\ pc[r] = "done" /\ ret[r].kind = "Ok"
        /\ IsGet(q) /\ pc[q] = "done" /\ ret[q].kind = "Ok" /\ calls[q] = 1
        /\ Unwrap(ret[r].exec).id # req[q].id
        /\ executions[Unwrap(ret[r].exec).id] = ret[r].exec
        /\ executions[req[q].id] = ret[q].exec
        /\ Unwrap(executions[req[q].id]).id = req[q].id

\* ------------------------------------------------- C29
\* C29: on the binary RPC transport a backend status that is Unspecified or
\* no value of the enum becomes Pending, which is not terminal: the cache
\* would not trust an entry with it.
C29_UnknownStatusIsPending ==
    (probe.fn = "proto_to_status" /\ probe.in.status \in {"Unspecified", "Unknown"})
    => /\ probe.out = "Pending"
       /\ probe.out \notin TerminalStatuses
       /\ NeedsRefresh(probe.out)

\* the status of a fetched execution was no value of the enum
C29_Witness ==
    /\ probe.fn = "proto_to_status"
    /\ probe.in = [op |-> "fetch", status |-> "Unknown"]
    /\ probe.out = "Pending"

====
